---- MODULE Spec2Model ----
(***************************************************************************)
(* Pinmux table analysis (src/pinmux_analysis.py): parse_table classifies  *)
(* the (direction, function) cell pairs of a worksheet into groups and     *)
(* sub-groups, print_group renders the classification.                     *)
(*                                                                         *)
(* Conventions.  A Python dict is a sequence of entries in insertion order *)
(* (each entry carries its key).  A cell is [value, strike]; the Python    *)
(* value None is the string None below, told apart from the text "None"    *)
(* that str() makes of it.  A regular expression is its source text; what  *)
(* it fullmatches is tabulated in Lang for the finite set of texts the     *)
(* worksheets of this model hold.  A Pin carries the ghost field id, the   *)
(* (row, pair) position it was read at, which stands for the identity of   *)
(* the Python object.  Column widths (ljust) of the report are not         *)
(* modelled; the point where len() is applied to a cell value is.          *)
(***************************************************************************)
EXTENDS Integers, Sequences, FiniteSets, TLC

VARIABLES config, ws, pc, ridx, pidx, func_cidx_list, pad_cidx, ref_cidx,
          ignore_dict, unknown_list, group_dict, out

vars == <<config, ws, pc, ridx, pidx, func_cidx_list, pad_cidx, ref_cidx,
          ignore_dict, unknown_list, group_dict, out>>

(***************************************************************************)
(* Bounds                                                                  *)
(***************************************************************************)
\* largest ws.max_row: the header row and MaxRow - 1 rows below it
MaxRow == 3

(***************************************************************************)
(* Python values and library functions                                     *)
(***************************************************************************)
None == "<None>"

\* pad_cidx = None / ref_cidx = None: no column index (columns start at 1)
NoIdx == 0

DIR_I_TAG == {"I", "IO"}

DIR_O_TAG == {"O", "IO"}

DIR_TAG == DIR_I_TAG \cup DIR_O_TAG

\* str(value)
Str(v) == IF v = None THEN "None" ELSE v

\* str.upper() on the direction texts of the model
Upper(s) ==
    CASE s = "i" -> "I"
      [] s = "o" -> "O"
      [] s = "io" -> "IO"
      [] s = "Io" -> "IO"
      [] s = "x" -> "X"
      [] s = "Dir" -> "DIR"
      [] s = "None" -> "NONE"
      [] OTHER -> s

\* value.replace('\n', ' ').strip() on the header texts of the model
Clean(s) ==
    CASE s = "Pad\nName" -> "Pad Name"
      [] s = " Ref " -> "Ref"
      [] s = "Ref\n" -> "Ref"
      [] OTHER -> s

\* the texts a pattern fullmatches, among the texts of the model
Lang(pat) ==
    CASE pat = "U(\\d)_.*" -> {"U0_CK", "U0_RX", "U1_RX"}
      [] pat = "U0_.*" -> {"U0_CK", "U0_RX"}
      [] pat = "U1_.*" -> {"U1_RX"}
      [] pat = ".*_RX" -> {"U0_RX", "U1_RX"}
      [] pat = ".*_CK" -> {"U0_CK"}
      [] pat = "Function \\d" -> {"Function 1", "Function 2"}
      [] OTHER -> {pat}

\* re.Pattern.fullmatch
Fullmatch(pat, s) == s \in Lang(pat)

\* repat.sub(template, s) for a text s that repat fullmatches: the template
\* with \1 replaced by the first capture group of the match
PatternSub(pat, template, s) ==
    IF template = "U\\1" /\ pat = "U(\\d)_.*"
    THEN (IF s \in {"U0_CK", "U0_RX"} THEN "U0" ELSE "U1")
    ELSE template

Min(S) == CHOOSE x \in S : \A y \in S : x <= y

\* indices of s, in order, as a sequence
Indices(s) == [i \in 1..Len(s) |-> i]

\* index of the first TRUE of a sequence of test results, or NoIdx
FirstIdx(tests) ==
    LET hits == {i \in 1..Len(tests) : tests[i]}
    IN IF hits = {} THEN NoIdx ELSE Min(hits)

(***************************************************************************)
(* Data structures                                                         *)
(***************************************************************************)
Pin(func, dir, pad, ref, id) ==
    [func |-> func, dir |-> dir, pad |-> pad, ref |-> ref, id |-> id]

\* SubGroup(), under its key in GroupData.sub_group
SubGroup(name) ==
    [name |-> name, pin_list |-> <<>>, data_pin |-> <<>>, clk_pin |-> <<>>]

\* the GroupData built from one entry of config['function']; tag tells the
\* kind of value the key of group_dict holds
GroupData(gname, gconfig) ==
    [key |-> gname, tag |-> "GroupData",
     repat |-> [i \in 1..Len(gconfig.subgroup) |-> gconfig.subgroup[i].pattern],
     sub_name |-> [i \in 1..Len(gconfig.subgroup) |-> gconfig.subgroup[i].name],
     clk_repat |-> gconfig.clock,
     cus_pin |-> gconfig.custom,
     sub_group |-> <<>>]

\* a key of group_dict that holds the unknown list or the ignore dictionary
OtherEntry(k, tag) ==
    [key |-> k, tag |-> tag, repat |-> <<>>, sub_name |-> <<>>,
     clk_repat |-> <<>>, cus_pin |-> <<>>, sub_group |-> <<>>]

\* d[k] = e on an insertion-ordered dict: an existing key keeps its place
SetItem(d, k, e) ==
    LET at == FirstIdx([i \in 1..Len(d) |-> d[i].key = k])
    IN IF at = NoIdx THEN Append(d, e) ELSE [d EXCEPT ![at] = e]

(***************************************************************************)
(* parse_table: table format, ignore dictionary, group format              *)
(***************************************************************************)
\* ws.cell(r, c)
Cell(sheet, r, c) == sheet[r].cells[c]

\* the (direction, function) column pairs: every column of the function
\* header row whose text some header pattern fullmatches, with its left
\* neighbour
FuncCidxList(cfg, sheet) ==
    LET row == sheet[cfg.table_format.function.rid].cells
        pats == cfg.table_format.function.pattern
        hit(i) == \E k \in 1..Len(pats) : Fullmatch(pats[k], Str(row[i].value))
        cols == SelectSeq(Indices(row), hit)
    IN [k \in 1..Len(cols) |-> <<cols[k] - 1, cols[k]>>]

\* first column of the locator's header row whose cleaned text the
\* locator's pattern fullmatches; NoIdx when there is none
LocateCidx(locator, sheet) ==
    LET cells == sheet[locator.rid].cells
    IN FirstIdx([i \in 1..Len(cells) |->
                    Fullmatch(locator.pattern, Clean(Str(cells[i].value)))])

IgnoreDict(cfg) ==
    [i \in 1..Len(cfg.ignore) |->
        [name |-> cfg.ignore[i].name, active |-> FALSE,
         repat |-> cfg.ignore[i].pattern]]

GroupDict(cfg) ==
    [i \in 1..Len(cfg.function) |->
        GroupData(cfg.function[i].name, cfg.function[i])]

(***************************************************************************)
(* parse_table: classification of one pin                                  *)
(***************************************************************************)
\* the clock test of a matched pin
IsClk(gdata, func) ==
    \E k \in 1..Len(gdata.clk_repat) : Fullmatch(gdata.clk_repat[k], func)

\* gdata.sub_group.setdefault(sgname, SubGroup()): index of the entry
SetDefault(sub_group, sgname) ==
    IF \E i \in 1..Len(sub_group) : sub_group[i].name = sgname
    THEN sub_group
    ELSE Append(sub_group, SubGroup(sgname))

\* AppendPin with the clock append outside the "if is_clk"
AppendPinToAll(sgdata, pin, is_clk) ==
    [sgdata EXCEPT !.clk_pin = Append(@, pin),
                   !.data_pin = IF is_clk THEN @ ELSE Append(@, pin),
                   !.pin_list = Append(@, pin)]

\* the three appends to the fetched sub-group
AppendPin(sgdata, pin, is_clk) ==
    [sgdata EXCEPT !.clk_pin = IF is_clk THEN Append(@, pin) ELSE @,
                   !.data_pin = IF is_clk THEN @ ELSE Append(@, pin),
                   !.pin_list = Append(@, pin)]

\* the body of "if (m := repat.fullmatch(pin_data.func))" for pattern pid
RecordPin(gdata, pid, pin) ==
    LET is_clk == IsClk(gdata, pin.func)
        sgname == PatternSub(gdata.repat[pid], gdata.sub_name[pid], pin.func)
        subs   == SetDefault(gdata.sub_group, sgname)
        at     == FirstIdx([i \in 1..Len(subs) |-> subs[i].name = sgname])
    IN [gdata EXCEPT !.sub_group =
            [subs EXCEPT ![at] = AppendPin(subs[at], pin, is_clk)]]

\* the inner loop over the patterns of one group, from pattern pid on
RECURSIVE ClassifyGroup(_, _, _)
ClassifyGroup(gdata, pin, pid) ==
    IF pid > Len(gdata.repat) THEN gdata
    ELSE ClassifyGroup(
            IF Fullmatch(gdata.repat[pid], pin.func)
            THEN RecordPin(gdata, pid, pin) ELSE gdata,
            pin, pid + 1)

\* the outer loop over the groups
ClassifyPin(gdict, pin) ==
    [g \in 1..Len(gdict) |-> ClassifyGroup(gdict[g], pin, 1)]

\* is_unknown after the two loops
IsUnknown(gdict, func) ==
    ~ \E g \in 1..Len(gdict) : \E pid \in 1..Len(gdict[g].repat) :
          Fullmatch(gdict[g].repat[pid], func)

\* a variant of the ignore check that takes the last fullmatching rule
LastIgnore(idict, func_name) ==
    LET hits == {i \in 1..Len(idict) : Fullmatch(idict[i].repat, func_name)}
    IN IF hits = {} THEN NoIdx ELSE CHOOSE x \in hits : \A y \in hits : y <= x

\* index of the first ignore rule fullmatching the name, or NoIdx
FirstIgnore(idict, func_name) ==
    FirstIdx([i \in 1..Len(idict) |-> Fullmatch(idict[i].repat, func_name)])

(***************************************************************************)
(* print_group                                                             *)
(***************************************************************************)
\* one print() of the report; src lists the pins (by id) whose cells the
\* line renders, gname the group a sub-group line belongs to
Line(kind, gname, name, items, src) ==
    [kind |-> kind, gname |-> gname, name |-> name, items |-> items, src |-> src]

SkippedKeys == {"unknown", "ignore"}

\* _print_pin: len(pin.pad) and len(pin.ref) raise TypeError on None, in
\* the first loop, before any line is printed.  cpin_set is None for the
\* unknown block (tagged FALSE).
PrintPin(pin_list, tagged, cpin_set, gname, block) ==
    IF \E i \in 1..Len(pin_list) :
          pin_list[i].pad = None \/ pin_list[i].ref = None
    THEN [ok |-> FALSE, lines |-> <<>>]
    ELSE [ok |-> TRUE,
          lines |-> [i \in 1..Len(pin_list) |->
              LET pin == pin_list[i]
                  pin_type == IF ~tagged THEN ""
                              ELSE IF pin.func \in cpin_set THEN "[C] "
                              ELSE "[D] "
              IN Line("pin", gname, <<block>>,
                      <<pin_type, pin.func, pin.dir, pin.pad, pin.ref>>,
                      <<pin.id>>)]]

\* the category summary
PrintCategory(gdict) ==
    LET shown == SelectSeq(gdict, LAMBDA e : e.key \notin SkippedKeys)
    IN <<Line("header", "", <<"=== Category:">>, <<>>, <<>>)>> \o
       [i \in 1..Len(shown) |->
           Line("category", shown[i].key, <<shown[i].key>>,
                [k \in 1..Len(shown[i].sub_group) |-> shown[i].sub_group[k].name],
                <<>>)]

\* the unknown block
PrintUnknown(unknown) ==
    IF Len(unknown) = 0 THEN [ok |-> TRUE, lines |-> <<>>]
    ELSE LET r == PrintPin(unknown, FALSE, {}, "", "unknown")
         IN [ok |-> r.ok,
             lines |-> <<Line("header", "", <<"=== Unknown Function:">>, <<>>, <<>>)>>
                       \o r.lines]

\* the ignore block
PrintIgnore(idict) ==
    LET active == SelectSeq(idict, LAMBDA rule : rule.active)
    IN IF Len(active) = 0 THEN <<>>
       ELSE <<Line("header", "", <<"=== Parsing Ignore:">>, <<>>, <<>>)>> \o
            [i \in 1..Len(active) |->
                Line("ignore", "", <<active[i].name>>, <<active[i].repat>>, <<>>)]

\* index of the first custom label whose pattern fullmatches, or NoIdx
FirstCustom(gdata, func) ==
    FirstIdx([i \in 1..Len(gdata.cus_pin) |-> Fullmatch(gdata.cus_pin[i].pattern, func)])

\* cus_pin_dict[cus_name].append(pin) on the defaultdict (a new key is
\* inserted last)
BucketAppend(cus, cus_name, pin) ==
    LET at == FirstIdx([i \in 1..Len(cus) |-> cus[i].name = cus_name])
    IN IF at = NoIdx THEN Append(cus, [name |-> cus_name, pins |-> <<pin>>])
       ELSE [cus EXCEPT ![at].pins = Append(@, pin)]

\* SplitPins without the "continue" after a custom match
RECURSIVE SplitPinsNoContinue(_, _, _, _)
SplitPinsNoContinue(gdata, pins, i, acc) ==
    IF i > Len(pins) THEN acc
    ELSE LET pin == pins[i]
             c   == FirstCustom(gdata, pin.func)
             in_cus == IF c # NoIdx
                       THEN [acc EXCEPT !.cus = BucketAppend(@, gdata.cus_pin[c].name, pin)]
                       ELSE acc
         IN SplitPinsNoContinue(gdata, pins, i + 1,
              [in_cus EXCEPT
                  !.i_list = IF pin.dir \in DIR_I_TAG THEN Append(@, pin) ELSE @,
                  !.o_list = IF pin.dir \in DIR_O_TAG THEN Append(@, pin) ELSE @])

\* one of the two loops "for pin in sgdata.clk_pin / data_pin", from pin i
\* on: acc is [cus, i_list, o_list], the lists holding the pins whose pads
\* the code collects
RECURSIVE SplitPins(_, _, _, _)
SplitPins(gdata, pins, i, acc) ==
    IF i > Len(pins) THEN acc
    ELSE LET pin == pins[i]
             c   == FirstCustom(gdata, pin.func)
         IN SplitPins(gdata, pins, i + 1,
              IF c # NoIdx
              THEN [acc EXCEPT !.cus = BucketAppend(@, gdata.cus_pin[c].name, pin)]
              ELSE [acc EXCEPT
                      !.i_list = IF pin.dir \in DIR_I_TAG THEN Append(@, pin) ELSE @,
                      !.o_list = IF pin.dir \in DIR_O_TAG THEN Append(@, pin) ELSE @])

Pads(pins) == [i \in 1..Len(pins) |-> pins[i].pad]

Ids(pins) == [i \in 1..Len(pins) |-> pins[i].id]

\* "if len(x_list): print(set <sgname><suffix> [get_ports {...}])"
Statement(gname, sgname, suffix, pins) ==
    IF Len(pins) = 0 THEN <<>>
    ELSE <<Line("stmt", gname, <<sgname, suffix>>, Pads(pins), Ids(pins))>>

\* the detail of one sub-group with pins: header, pin listing, statements
PrintSubGroup(gdata, sgdata) ==
    LET head == <<Line("subgroup", gdata.key, <<sgdata.name>>, <<>>, <<>>)>>
        cpin_set == {sgdata.clk_pin[i].func : i \in 1..Len(sgdata.clk_pin)}
        listing == PrintPin(sgdata.pin_list, TRUE, cpin_set, gdata.key, sgdata.name)
        clk == SplitPins(gdata, sgdata.clk_pin, 1,
                         [cus |-> <<>>, i_list |-> <<>>, o_list |-> <<>>])
        dat == SplitPins(gdata, sgdata.data_pin, 1,
                         [cus |-> clk.cus, i_list |-> <<>>, o_list |-> <<>>])
    IN IF ~listing.ok THEN [ok |-> FALSE, lines |-> head]
       ELSE [ok |-> TRUE,
             lines |-> head \o listing.lines
                 \o Statement(gdata.key, sgdata.name, "_PADCLK_I", clk.i_list)
                 \o Statement(gdata.key, sgdata.name, "_PADCLK_O", clk.o_list)
                 \o Statement(gdata.key, sgdata.name, "_PORT_I", dat.i_list)
                 \o Statement(gdata.key, sgdata.name, "_PORT_O", dat.o_list)
                 \o [k \in 1..Len(dat.cus) |->
                        Line("custom", gdata.key,
                             <<sgdata.name, "_", dat.cus[k].name>>,
                             Pads(dat.cus[k].pins), Ids(dat.cus[k].pins))]]

\* the loops over the groups and their sub-groups, from (g, s) on
RECURSIVE PrintFunction(_, _, _, _)
PrintFunction(gdict, g, s, acc) ==
    IF g > Len(gdict) THEN [ok |-> TRUE, lines |-> acc]
    ELSE IF gdict[g].key \in SkippedKeys THEN PrintFunction(gdict, g + 1, 1, acc)
    ELSE IF s > Len(gdict[g].sub_group) THEN PrintFunction(gdict, g + 1, 1, acc)
    ELSE IF Len(gdict[g].sub_group[s].pin_list) = 0
         THEN PrintFunction(gdict, g, s + 1, acc)
    ELSE LET r == PrintSubGroup(gdict[g], gdict[g].sub_group[s])
         IN IF ~r.ok THEN [ok |-> FALSE, lines |-> acc \o r.lines]
            ELSE PrintFunction(gdict, g, s + 1, acc \o r.lines)

\* the whole report: what was printed, and whether print_group returned
\* (ok) or raised
Report(gdict, unknown, idict) ==
    LET cat == PrintCategory(gdict)
        unk == PrintUnknown(unknown)
        ign == PrintIgnore(idict)
        fun == PrintFunction(gdict, 1, 1,
                   <<Line("header", "", <<"=== Function:">>, <<>>, <<>>)>>)
    IN IF ~unk.ok THEN [ok |-> FALSE, lines |-> cat \o unk.lines]
       ELSE [ok |-> fun.ok, lines |-> cat \o unk.lines \o ign \o fun.lines]

(***************************************************************************)
(* Configurations and worksheets of the model                              *)
(***************************************************************************)
TableFormat ==
    [active_ws |-> "pinmux",
     function |-> [rid |-> 1, pattern |-> <<"Function \\d">>],
     pad_name |-> [rid |-> 1, pattern |-> "Pad Name"],
     ref_name |-> [rid |-> 1, pattern |-> "Ref"]]

SubDef(pattern, name) == [pattern |-> pattern, name |-> name]

Named(name, pattern) == [name |-> name, pattern |-> pattern]

\* one sub-group pattern with a back-reference, one clock pattern
GPlain ==
    [subgroup |-> <<SubDef("U(\\d)_.*", "U\\1")>>,
     clock |-> <<".*_CK">>, custom |-> <<>>]

\* two overlapping sub-group patterns rendering the same name, two
\* overlapping custom labels
GUart ==
    [subgroup |-> <<SubDef("U(\\d)_.*", "U\\1"), SubDef("U0_.*", "U0")>>,
     clock |-> <<".*_CK">>,
     custom |-> <<Named("RX0", "U0_RX"), Named("RXD", ".*_RX")>>]

\* two overlapping sub-group patterns rendering different names
GSplit ==
    [subgroup |-> <<SubDef(".*_RX", "RX"), SubDef("U0_.*", "ZERO")>>,
     clock |-> <<>>, custom |-> <<>>]

\* clock pins only, every one of them a custom pin
GClk ==
    [subgroup |-> <<SubDef(".*_CK", "CLK")>>,
     clock |-> <<"U0_.*", ".*_CK">>,
     custom |-> <<Named("CK", ".*_CK")>>]

GOne ==
    [subgroup |-> <<SubDef("U1_.*", "U1")>>, clock |-> <<>>, custom |-> <<>>]

Group(name, gconfig) ==
    [name |-> name, subgroup |-> gconfig.subgroup, clock |-> gconfig.clock,
     custom |-> gconfig.custom]

GroupLists ==
    {<<Group("uart", GPlain)>>,
     <<Group("uart", GUart)>>,
     <<Group("uart", GSplit)>>,
     <<Group("uart", GOne), Group("clk", GClk)>>,
     <<Group("uart", GPlain), Group("rx", GSplit)>>,
     <<Group("clk", GClk), Group("uart", GUart)>>,
     <<Group("unknown", GPlain), Group("clk", GClk)>>,
     <<Group("uart", GOne), Group("ignore", GPlain)>>}

IgnoreLists ==
    {<<Named("skip0", "U0_.*")>>,
     <<Named("skipck", ".*_CK"), Named("skip0", "U0_.*")>>,
     <<Named("empty", "None"), Named("skipck", ".*_CK")>>}

Configs(groups, ignores, hides) ==
    {[hide_row_parse |-> h, table_format |-> TableFormat,
      function |-> g, ignore |-> i] : g \in groups, i \in ignores, h \in hides}

CellOf(v) == [value |-> v, strike |-> FALSE]

Struck(v) == [value |-> v, strike |-> TRUE]

\* a row: pad name, reference name, two (direction, function) cell pairs
Row(hidden, pad, ref, c1, c2) ==
    [hidden |-> hidden,
     cells |-> <<CellOf(pad), CellOf(ref), c1[1], c1[2], c2[1], c2[2]>>]

PairOf(dir, func) == <<CellOf(dir), CellOf(func)>>

EmptyPair == PairOf(None, None)

HeaderRow(pad, ref, f1, f2) ==
    Row(FALSE, pad, ref, PairOf("Dir", f1), PairOf("Dir", f2))

HeaderOk == HeaderRow("Pad\nName", " Ref ", "Function 1", "Function 2")

BadHeaders ==
    {HeaderRow(None, "Ref", "Function 1", "Function 2"),
     HeaderRow("Pad Name", "Reference", "Function 1", "Function 2"),
     HeaderRow("Pad", None, "Function 1", "Function 2"),
     HeaderRow("Pad Name", "Ref\n", "Function 1", "Note"),
     HeaderRow("Pad Name", "Ref", "Func", "Note")}

ClassifyRows ==
    {Row(FALSE, "PA", "RA", c1, c2) :
        c1 \in {PairOf("I", "U0_CK"), PairOf("o", "U0_RX"),
                PairOf("IO", "U1_RX"), PairOf("I", "GPIO")},
        c2 \in {EmptyPair, PairOf("I", "U0_RX")}}
    \cup
    {Row(FALSE, "PB", "RB", PairOf("O", "U0_CK"), EmptyPair),
     Row(FALSE, "PB", "RB", PairOf("I", "U0_RX"), PairOf("io", "GPIO"))}

IgnoreRows ==
    {Row(FALSE, "PA", "RA", c1, EmptyPair) :
        c1 \in {PairOf("I", "U0_CK"), PairOf("I", "U0_RX"), PairOf("I", "U1_RX"),
                PairOf("x", "U0_CK"), PairOf(None, "U0_RX"), PairOf("I", None),
                <<Struck("I"), CellOf("U0_CK")>>,
                <<Struck("I"), CellOf("U0_RX")>>}}
    \cup
    {Row(TRUE, "PB", "RB", PairOf("I", "U0_CK"), EmptyPair),
     Row(TRUE, "PB", "RB", PairOf("O", "U1_RX"), PairOf("I", "GPIO")),
     Row(FALSE, "PB", "RB", PairOf("I", "GPIO"), PairOf("O", "U0_RX"))}

LocatorRows ==
    {Row(FALSE, "PA", "RA", PairOf("I", "U0_RX"), EmptyPair),
     Row(FALSE, "PA", "RA", PairOf("x", "U0_RX"), EmptyPair),
     Row(FALSE, "PB", "RB", PairOf("I", "U0_CK"), PairOf("O", "U1_RX")),
     Row(TRUE, "PB", "RB", PairOf("I", "U0_RX"), EmptyPair),
     Row(FALSE, "PB", "RB", PairOf(None, "GPIO"), EmptyPair)}

AbsentRows ==
    {Row(FALSE, pr[1], pr[2], c1, EmptyPair) :
        pr \in {<<None, "RA">>, <<"PA", None>>, <<"PA", "RA">>},
        c1 \in {PairOf("I", "U0_RX"), PairOf("O", "GPIO"), PairOf("I", "U0_CK")}}

\* the worksheets made of a header row and up to MaxRow - 1 rows below it
Tables(headers, rows) ==
    {<<h>> \o t : h \in headers,
                  t \in UNION {[1..n -> rows] : n \in 0..(MaxRow - 1)}}

Scenarios(configs, headers, rows) ==
    {[config |-> c, ws |-> t] : c \in configs, t \in Tables(headers, rows)}

Inputs ==
    Scenarios(Configs(GroupLists, {<<>>}, {FALSE}), {HeaderOk}, ClassifyRows)
    \cup Scenarios(Configs({<<Group("uart", GPlain), Group("rx", GSplit)>>},
                           IgnoreLists, BOOLEAN),
                   {HeaderOk}, IgnoreRows)
    \cup Scenarios(Configs({<<Group("uart", GPlain)>>},
                           {<<>>, <<Named("skip0", "U0_.*")>>}, {FALSE}),
                   BadHeaders, LocatorRows)
    \cup Scenarios(Configs({<<Group("uart", GPlain)>>, <<Group("uart", GUart)>>},
                           {<<>>, <<Named("skipck", ".*_CK")>>}, {FALSE}),
                   {HeaderOk}, AbsentRows)

(***************************************************************************)
(* The program: main calls parse_table, then print_group                   *)
(***************************************************************************)
Init ==
    /\ \E sc \in Inputs : config = sc.config /\ ws = sc.ws
    /\ pc = "start"
    /\ ridx = 1
    /\ pidx = 1
    /\ func_cidx_list = <<>>
    /\ pad_cidx = NoIdx
    /\ ref_cidx = NoIdx
    /\ ignore_dict = <<>>
    /\ unknown_list = <<>>
    /\ group_dict = <<>>
    /\ out = <<>>

\* parse_table up to the row loop: column discovery, ignore dictionary,
\* group format
ParseSetup ==
    /\ pc = "start"
    /\ func_cidx_list' = FuncCidxList(config, ws)
    /\ pad_cidx' = LocateCidx(config.table_format.pad_name, ws)
    /\ ref_cidx' = LocateCidx(config.table_format.ref_name, ws)
    /\ ignore_dict' = IgnoreDict(config)
    /\ unknown_list' = <<>>
    /\ group_dict' = GroupDict(config)
    /\ ridx' = 1
    /\ pidx' = 1
    /\ pc' = "scan"
    /\ UNCHANGED <<config, ws, out>>

\* "if ws.row_dimensions[ridx].hidden and not config['hide_row_parse']"
RowSkipped(r) == ws[r].hidden /\ ~config.hide_row_parse

\* one iteration of the row loop that skips a hidden row
SkipHiddenRow ==
    /\ pc = "scan"
    /\ ridx <= Len(ws)
    /\ RowSkipped(ridx)
    /\ ridx' = ridx + 1
    /\ pidx' = 1
    /\ UNCHANGED <<config, ws, pc, func_cidx_list, pad_cidx, ref_cidx,
                   ignore_dict, unknown_list, group_dict, out>>

\* one iteration of the row loop when no function column was discovered
ScanRowNoPair ==
    /\ pc = "scan"
    /\ ridx <= Len(ws)
    /\ ~RowSkipped(ridx)
    /\ Len(func_cidx_list) = 0
    /\ ridx' = ridx + 1
    /\ pidx' = 1
    /\ UNCHANGED <<config, ws, pc, func_cidx_list, pad_cidx, ref_cidx,
                   ignore_dict, unknown_list, group_dict, out>>

\* one iteration of the loop over the column pairs of a row that is not
\* skipped: strike check, ignore check, direction check, Pin, classification
ScanPair ==
    /\ pc = "scan"
    /\ ridx <= Len(ws)
    /\ ~RowSkipped(ridx)
    /\ pidx <= Len(func_cidx_list)
    /\ LET dir_cell  == Cell(ws, ridx, func_cidx_list[pidx][1])
           func_name == Str(Cell(ws, ridx, func_cidx_list[pidx][2]).value)
           rule      == FirstIgnore(ignore_dict, func_name)
           direction == dir_cell.value
           is_pin    == IF direction = None THEN FALSE
                        ELSE Upper(Str(direction)) \in DIR_TAG
           construct == ~dir_cell.strike /\ rule = NoIdx /\ is_pin
           \* ws.cell(ridx, None) raises TypeError
           raises    == construct /\ (pad_cidx = NoIdx \/ ref_cidx = NoIdx)
           pin_data  == Pin(func_name, Upper(Str(direction)),
                            Cell(ws, ridx, pad_cidx).value,
                            Cell(ws, ridx, ref_cidx).value,
                            <<ridx, pidx>>)
       IN /\ ignore_dict' =
                IF ~dir_cell.strike /\ rule # NoIdx
                THEN [ignore_dict EXCEPT ![rule].active = TRUE]
                ELSE ignore_dict
          /\ group_dict' =
                IF construct /\ ~raises THEN ClassifyPin(group_dict, pin_data)
                ELSE group_dict
          /\ unknown_list' =
                IF construct /\ ~raises /\ IsUnknown(group_dict, func_name)
                THEN Append(unknown_list, pin_data)
                ELSE unknown_list
          /\ pc' = IF raises THEN "parse_raised" ELSE "scan"
          /\ ridx' = IF raises \/ pidx < Len(func_cidx_list) THEN ridx ELSE ridx + 1
          /\ pidx' = IF raises THEN pidx
                     ELSE IF pidx < Len(func_cidx_list) THEN pidx + 1 ELSE 1
    /\ UNCHANGED <<config, ws, func_cidx_list, pad_cidx, ref_cidx, out>>

\* the end of parse_table: the two assignments to group_dict and the return
ParseReturn ==
    /\ pc = "scan"
    /\ ridx > Len(ws)
    /\ group_dict' = SetItem(SetItem(group_dict, "unknown",
                                     OtherEntry("unknown", "unknown_list")),
                             "ignore", OtherEntry("ignore", "ignore_dict"))
    /\ pc' = "parsed"
    /\ UNCHANGED <<config, ws, ridx, pidx, func_cidx_list, pad_cidx, ref_cidx,
                   ignore_dict, unknown_list, out>>

\* print_group on the result of parse_table
PrintGroup ==
    /\ pc = "parsed"
    /\ LET r == Report(group_dict, unknown_list, ignore_dict)
       IN /\ out' = r.lines
          /\ pc' = IF r.ok THEN "done" ELSE "print_raised"
    /\ UNCHANGED <<config, ws, ridx, pidx, func_cidx_list, pad_cidx, ref_cidx,
                   ignore_dict, unknown_list, group_dict>>

Next ==
    \/ ParseSetup
    \/ SkipHiddenRow
    \/ ScanRowNoPair
    \/ ScanPair
    \/ ParseReturn
    \/ PrintGroup

Spec == Init /\ [][Next]_vars

(***************************************************************************)
(* Vocabulary of the properties: the cell pairs of the worksheet, read     *)
(* from the inputs config and ws                                           *)
(***************************************************************************)
Positions ==
    {<<r, p>> : r \in 1..Len(ws), p \in 1..Len(func_cidx_list)}

\* the pair was handled by a finished iteration of the scan
Processed(pos) ==
    /\ pc # "start"
    /\ (pos[1] < ridx \/ (pos[1] = ridx /\ pos[2] < pidx))

DirCellAt(pos) == Cell(ws, pos[1], func_cidx_list[pos[2]][1])

FuncNameAt(pos) ==
    LET v == Cell(ws, pos[1], func_cidx_list[pos[2]][2]).value
    IN IF v = None THEN "None" ELSE v

\* the pair reaches the ignore test
Tested(pos) ==
    (ws[pos[1]].hidden => config.hide_row_parse) /\ ~DirCellAt(pos).strike

IgnoreMatches(func) ==
    {i \in 1..Len(config.ignore) : Fullmatch(config.ignore[i].pattern, func)}

\* I, O or IO in any letter case
ValidDirTexts == {"I", "O", "IO", "i", "o", "io", "Io", "iO"}

\* a Pin is constructed for the pair
Constructed(pos) ==
    /\ Tested(pos)
    /\ IgnoreMatches(FuncNameAt(pos)) = {}
    /\ DirCellAt(pos).value \in ValidDirTexts

\* the pin occurrences constructed so far, by position
PinIds == {pos \in Positions : Processed(pos) /\ Constructed(pos)}

\* the (group, pattern) pairs of the configuration fullmatching a name
MatchPairs(func) ==
    {gp \in UNION {{<<g, k>> : k \in 1..Len(config.function[g].subgroup)} :
                      g \in 1..Len(config.function)} :
        Fullmatch(config.function[gp[1]].subgroup[gp[2]].pattern, func)}

\* the first of them in configuration order
FirstPair(func) ==
    CHOOSE gp \in MatchPairs(func) :
        \A other \in MatchPairs(func) :
            gp[1] < other[1] \/ (gp[1] = other[1] /\ gp[2] <= other[2])

SubNameOf(gp, func) ==
    PatternSub(config.function[gp[1]].subgroup[gp[2]].pattern,
               config.function[gp[1]].subgroup[gp[2]].name, func)

\* the entries of pin id in a list of pins
EntriesIn(pins, id) == {i \in 1..Len(pins) : pins[i].id = id}

\* the pin_list entries <<s, i>> of pin id in the sub-groups of entry g
GroupEntries(g, id) ==
    UNION {{<<s, i>> : i \in EntriesIn(group_dict[g].sub_group[s].pin_list, id)} :
              s \in 1..Len(group_dict[g].sub_group)}

AllEntries(id) ==
    UNION {{<<g, e[1], e[2]>> : e \in GroupEntries(g, id)} :
              g \in 1..Len(group_dict)}

\* parse_table has returned its result
Returned == pc \in {"parsed", "done", "print_raised"}

\* print_group has ended, by returning or by raising
Printed == pc \in {"done", "print_raised"}

(***************************************************************************)
(* C1-C3: groups, sub-groups and the unknown list                          *)
(***************************************************************************)
\* C1 (as claimed): during the scan, every constructed pin whose function
\* name some sub-group pattern fullmatches has exactly one pin_list entry in
\* all groups together, in the sub-group named by the first fullmatching
\* (group, pattern) pair in configuration order.
C1_FirstMatchWins ==
    pc = "scan" =>
        \A id \in PinIds :
            LET func == FuncNameAt(id)
            IN MatchPairs(func) # {} =>
                 LET gp == FirstPair(func)
                 IN /\ Cardinality(AllEntries(id)) = 1
                    /\ \A e \in AllEntries(id) :
                          /\ e[1] = gp[1]
                          /\ group_dict[e[1]].sub_group[e[2]].name = SubNameOf(gp, func)

\* C2 (as claimed): during the scan, every constructed pin has at most one
\* pin_list entry in the sub-groups of each group, and exactly one in every
\* group one of whose patterns fullmatches its function name.
C2_OncePerGroup ==
    pc = "scan" =>
        \A id \in PinIds : \A g \in 1..Len(group_dict) :
            /\ Cardinality(GroupEntries(g, id)) <= 1
            /\ (\E gp \in MatchPairs(FuncNameAt(id)) : gp[1] = g)
                  => Cardinality(GroupEntries(g, id)) = 1

\* the unmatched pins, as the scan order lists them
RECURSIVE UnmatchedFrom(_, _)
UnmatchedFrom(r, p) ==
    IF r > Len(ws) THEN <<>>
    ELSE IF p > Len(func_cidx_list) THEN UnmatchedFrom(r + 1, 1)
    ELSE (IF <<r, p>> \in PinIds /\ MatchPairs(FuncNameAt(<<r, p>>)) = {}
          THEN <<<<r, p>>>> ELSE <<>>) \o UnmatchedFrom(r, p + 1)

\* C3 (as claimed): in the result of parse_table a constructed pin is in the
\* unknown list exactly when no sub-group pattern of any configured group
\* fullmatches its name, it is in some sub-group's pin_list or in the unknown
\* list and never in both, it is in the unknown list at most once, and the
\* unknown list holds the unmatched pins in scan order.
C3_UnknownFallback ==
    Returned =>
        /\ \A id \in PinIds :
              /\ (EntriesIn(unknown_list, id) # {})
                    <=> (MatchPairs(FuncNameAt(id)) = {})
              /\ (AllEntries(id) # {}) <=> (EntriesIn(unknown_list, id) = {})
              /\ Cardinality(EntriesIn(unknown_list, id)) <= 1
        /\ Ids(unknown_list) = UnmatchedFrom(1, 1)

(***************************************************************************)
(* C4: clock and data pins of a sub-group                                  *)
(***************************************************************************)
IdSet(pins) == {pins[i].id : i \in 1..Len(pins)}

\* some clock pattern of configured group g fullmatches the name
ClockName(g, func) ==
    \E k \in 1..Len(config.function[g].clock) :
        Fullmatch(config.function[g].clock[k], func)

\* C4: in every state every sub-group of every group has clk_pin and
\* data_pin disjoint, together equal to pin_list (as sets of pin identities
\* and in number of entries), and a pin of pin_list is in clk_pin exactly
\* when a clock pattern of the owning group fullmatches its function name,
\* otherwise in data_pin.
C4_ClockDataDisjoint ==
    \A g \in 1..Len(group_dict) : \A s \in 1..Len(group_dict[g].sub_group) :
        LET sg == group_dict[g].sub_group[s]
        IN /\ IdSet(sg.clk_pin) \cap IdSet(sg.data_pin) = {}
           /\ IdSet(sg.clk_pin) \cup IdSet(sg.data_pin) = IdSet(sg.pin_list)
           /\ Len(sg.clk_pin) + Len(sg.data_pin) = Len(sg.pin_list)
           /\ \A i \in 1..Len(sg.pin_list) :
                 LET pin == sg.pin_list[i]
                 IN /\ (pin.id \in IdSet(sg.clk_pin)) <=> ClockName(g, pin.func)
                    /\ (pin.id \in IdSet(sg.data_pin)) <=> ~ClockName(g, pin.func)

\* the scan has filled a sub-group with a clock pin and a data pin
C4_Witness ==
    /\ pc = "scan"
    /\ \E g \in 1..Len(group_dict) : \E s \in 1..Len(group_dict[g].sub_group) :
          /\ Len(group_dict[g].sub_group[s].clk_pin) > 0
          /\ Len(group_dict[g].sub_group[s].data_pin) > 0

(***************************************************************************)
(* C5-C7: ignore rules, missing locators, absent cells                     *)
(***************************************************************************)
InAnyList(id) ==
    \/ EntriesIn(unknown_list, id) # {}
    \/ \E g \in 1..Len(group_dict) : \E s \in 1..Len(group_dict[g].sub_group) :
          id \in IdSet(group_dict[g].sub_group[s].pin_list)
                 \cup IdSet(group_dict[g].sub_group[s].clk_pin)
                 \cup IdSet(group_dict[g].sub_group[s].data_pin)

OutLines(kind) == {i \in 1..Len(out) : out[i].kind = kind}

\* C5 (as claimed): a scanned pair whose function name an ignore pattern
\* fullmatches adds no Pin to any list; the first matching rule is fired
\* when parse_table returns and print_group then lists its name and pattern
\* in the ignore block; the block is printed only if a rule fired and lists
\* fired rules only.
C5_IgnoreExclusion ==
    /\ \A pos \in Positions :
          (Processed(pos) /\ Tested(pos) /\ IgnoreMatches(FuncNameAt(pos)) # {}) =>
              LET rule == config.ignore[Min(IgnoreMatches(FuncNameAt(pos)))]
              IN /\ ~InAnyList(pos)
                 /\ Returned =>
                       ignore_dict[Min(IgnoreMatches(FuncNameAt(pos)))].active
                 /\ Printed =>
                       \E i \in OutLines("ignore") :
                           /\ out[i].name = <<rule.name>>
                           /\ out[i].items = <<rule.pattern>>
    /\ \A i \in OutLines("ignore") :
          \E k \in 1..Len(ignore_dict) :
              /\ ignore_dict[k].active
              /\ out[i].name = <<ignore_dict[k].name>>
    /\ (\E i \in OutLines("header") : out[i].name = <<"=== Parsing Ignore:">>)
          => \E k \in 1..Len(ignore_dict) : ignore_dict[k].active

\* no cell of the locator's header row fullmatches the locator's pattern
LocatorMissing(locator) ==
    \A c \in 1..Len(ws[locator.rid].cells) :
        ~Fullmatch(locator.pattern, Clean(Str(ws[locator.rid].cells[c].value)))

\* C6 (as claimed): with the pad-name or the reference-name column missing,
\* parse_table returns no classification result and classifies no pin.
C6_MissingLocatorIsError ==
    (\/ LocatorMissing(config.table_format.pad_name)
     \/ LocatorMissing(config.table_format.ref_name))
        => /\ ~Returned
           /\ \A pos \in Positions : ~InAnyList(pos)

AbsentCell(id) ==
    \/ Cell(ws, id[1], pad_cidx).value = None
    \/ Cell(ws, id[1], ref_cidx).value = None

\* None as the report shows it
Shown(v) == IF v = None THEN "" ELSE v

\* C7 (as claimed): a pin whose pad-name or reference-name cell holds no
\* value is classified, print_group runs to completion without raising, and
\* the pin listing and the pad lists show the absent value as empty text.
C7_AbsentCellsLenient ==
    /\ pc # "print_raised"
    /\ Returned =>
          \A id \in PinIds :
              (pad_cidx # NoIdx /\ ref_cidx # NoIdx /\ AbsentCell(id)) => InAnyList(id)
    /\ pc = "done" =>
          \A id \in PinIds :
              (AbsentCell(id) /\ InAnyList(id)) =>
                  \E i \in OutLines("pin") :
                      /\ out[i].src = <<id>>
                      /\ out[i].items[4] = Shown(Cell(ws, id[1], pad_cidx).value)
                      /\ out[i].items[5] = Shown(Cell(ws, id[1], ref_cidx).value)

(***************************************************************************)
(* C8-C9: the port-grouping statements of a sub-group                      *)
(***************************************************************************)
\* the lines of a kind that belong to sub-group sgname of the group key
SubGroupLines(kind, key, sgname) ==
    {i \in OutLines(kind) : out[i].gname = key /\ out[i].name[1] = sgname}

\* the statements of the sub-group were printed: its pin listing was
Rendered(key, sgname) == Printed /\ SubGroupLines("pin", key, sgname) # {}

\* the custom labels of configured group g whose pattern fullmatches
CustomMatches(g, func) ==
    {k \in 1..Len(config.function[g].custom) :
        Fullmatch(config.function[g].custom[k].pattern, func)}

Range(f) == {f[i] : i \in DOMAIN f}

\* C8: in the statements printed for a sub-group, a clock or data pin whose
\* name a custom pattern of the owning group fullmatches has its pad in
\* exactly one custom statement, that of the first matching label in
\* configuration order, and in none of the four directional statements; a
\* pin no custom pattern fullmatches is in no custom statement.
C8_CustomExclusive ==
    \A g \in 1..Len(group_dict) : \A s \in 1..Len(group_dict[g].sub_group) :
        LET key == group_dict[g].key
            sg  == group_dict[g].sub_group[s]
            cus == SubGroupLines("custom", key, sg.name)
            gen == SubGroupLines("stmt", key, sg.name)
        IN Rendered(key, sg.name) =>
             \A pin \in Range(sg.clk_pin) \cup Range(sg.data_pin) :
                 LET labels == CustomMatches(g, pin.func)
                     mine   == {i \in cus : pin.id \in Range(out[i].src)}
                 IN IF labels = {} THEN mine = {}
                    ELSE /\ Cardinality(mine) = 1
                         /\ \A i \in mine :
                               /\ out[i].name[3] =
                                     config.function[g].custom[Min(labels)].name
                               /\ \A k \in 1..Len(out[i].src) :
                                     out[i].src[k] = pin.id => out[i].items[k] = pin.pad
                         /\ \A i \in gen : pin.id \notin Range(out[i].src)

\* a finished report with a sub-group holding a pin that two custom labels
\* match, printed in a custom statement next to a directional statement
C8_Witness ==
    /\ pc = "done"
    /\ \E g \in 1..Len(group_dict) : \E s \in 1..Len(group_dict[g].sub_group) :
          LET sg == group_dict[g].sub_group[s]
          IN /\ \E pin \in Range(sg.pin_list) :
                   /\ Cardinality(CustomMatches(g, pin.func)) = 2
                   /\ \E i \in SubGroupLines("custom", group_dict[g].key, sg.name) :
                         pin.id \in Range(out[i].src)
             /\ SubGroupLines("stmt", group_dict[g].key, sg.name) # {}

InputCapable == {"I", "IO"}

OutputCapable == {"O", "IO"}

\* the pins of a list that no custom pattern of group g fullmatches and
\* whose direction is among dirs, in list order
Plain(g, pins, dirs) ==
    SelectSeq(pins, LAMBDA pin : CustomMatches(g, pin.func) = {} /\ pin.dir \in dirs)

\* the statement <sgname><suffix> is printed exactly once, carrying the pads
\* of pins, when pins is not empty, and not at all when it is
OneStatement(key, sgname, suffix, pins) ==
    LET lines == {i \in SubGroupLines("stmt", key, sgname) : out[i].name[2] = suffix}
    IN IF pins = <<>> THEN lines = {}
       ELSE /\ Cardinality(lines) = 1
            /\ \A i \in lines : out[i].items = Pads(pins) /\ out[i].src = Ids(pins)

StatementsOf(g, s) ==
    LET key == group_dict[g].key
        sg  == group_dict[g].sub_group[s]
    IN /\ OneStatement(key, sg.name, "_PADCLK_I", Plain(g, sg.clk_pin, InputCapable))
       /\ OneStatement(key, sg.name, "_PADCLK_O", Plain(g, sg.clk_pin, OutputCapable))
       /\ OneStatement(key, sg.name, "_PORT_I", Plain(g, sg.data_pin, InputCapable))
       /\ OneStatement(key, sg.name, "_PORT_O", Plain(g, sg.data_pin, OutputCapable))

\* C9 (as claimed): once print_group has ended, for every sub-group with a
\* pin each of the four directional statements is printed exactly once,
\* with the pads of the non-custom clock (data) pins capable of the
\* direction in scan order, if there is such a pin, and not at all otherwise.
C9_DirectionalStatements ==
    Printed =>
        \A g \in 1..Len(group_dict) : \A s \in 1..Len(group_dict[g].sub_group) :
            Len(group_dict[g].sub_group[s].pin_list) > 0 => StatementsOf(g, s)

(***************************************************************************)
(* C10: the category summary                                               *)
(***************************************************************************)
\* the sub-group names the pins from (r, p) on give group g, each at its
\* first discovery, after those of acc
RECURSIVE Discovered(_, _, _, _, _)
Discovered(g, r, p, k, acc) ==
    IF r > Len(ws) THEN acc
    ELSE IF p > Len(func_cidx_list) THEN Discovered(g, r + 1, 1, 1, acc)
    ELSE IF <<r, p>> \notin PinIds \/ k > Len(config.function[g].subgroup)
         THEN Discovered(g, r, p + 1, 1, acc)
    ELSE LET func == FuncNameAt(<<r, p>>)
             name == SubNameOf(<<g, k>>, func)
         IN Discovered(g, r, p, k + 1,
               IF <<g, k>> \in MatchPairs(func) /\ name \notin Range(acc)
               THEN Append(acc, name) ELSE acc)

\* C10 (as claimed): the result keeps one GroupDefinition per configured
\* group in configuration order, and the category summary has exactly one
\* line per configured group, in configuration order, listing the group's
\* sub-group names in first-discovery order.
C10_CategorySummary ==
    /\ Returned =>
          LET kept == SelectSeq(group_dict, LAMBDA e : e.tag = "GroupData")
          IN /\ Len(kept) = Len(config.function)
             /\ \A g \in 1..Len(kept) : kept[g].key = config.function[g].name
    /\ Printed =>
          LET cat == SelectSeq(out, LAMBDA line : line.kind = "category")
          IN /\ Len(cat) = Len(config.function)
             /\ \A g \in 1..Len(cat) :
                   /\ cat[g].name = <<config.function[g].name>>
                   /\ cat[g].items = Discovered(g, 1, 1, 1, <<>>)

(***************************************************************************)
(* What is left of C3, C5 and C9 on the inputs that do not run into the    *)
(* loss of a group named like a result key (C10) or into the TypeError on  *)
(* an absent cell (C7)                                                     *)
(***************************************************************************)
NoReservedName ==
    \A g \in 1..Len(config.function) : config.function[g].name \notin SkippedKeys

CellsPresent ==
    \A r \in 1..Len(ws) :
        ws[r].cells[1].value # None /\ ws[r].cells[2].value # None

\* C3 when no configured group is named "unknown" or "ignore"
C3_WithoutReservedNames == NoReservedName => C3_UnknownFallback

\* C5 when every pad-name and reference-name cell holds text
C5_WithCellsPresent == CellsPresent => C5_IgnoreExclusion

\* C9 when every pad-name and reference-name cell holds text
C9_WithCellsPresent == CellsPresent => C9_DirectionalStatements

(***************************************************************************)
(* C11: the history of the fired flags of the ignore rules                 *)
(***************************************************************************)
\* the rule a pair sets the flag of: the first rule in configuration order
\* fullmatching its function name, for a pair that reaches the ignore test
FiredAt(pos) ==
    IF Tested(pos) /\ IgnoreMatches(FuncNameAt(pos)) # {}
    THEN {Min(IgnoreMatches(FuncNameAt(pos)))}
    ELSE {}

\* the rules fired by the pairs processed so far
FiredSoFar == UNION {FiredAt(pos) : pos \in {q \in Positions : Processed(q)}}

\* the rules whose flag is set
ActiveRules(idict) == {i \in 1..Len(idict) : idict[i].active}

\* from the start of the scan on, there is one flag per configured rule and
\* rule R's flag is true iff an already-processed pair fired R (so every
\* flag is false when the scan starts)
FlagsFollowScan ==
    pc # "start" =>
        /\ Len(ignore_dict) = Len(config.ignore)
        /\ ActiveRules(ignore_dict) = FiredSoFar

\* a step of the scan resets no flag and sets at most the flag of the rule
\* the pair under the scan fires
FlagsOnlyRise ==
    pc = "scan" =>
        /\ ActiveRules(ignore_dict) \subseteq ActiveRules(ignore_dict')
        /\ ActiveRules(ignore_dict') \ ActiveRules(ignore_dict) \subseteq
              (IF <<ridx, pidx>> \in Positions THEN FiredAt(<<ridx, pidx>>) ELSE {})

\* C11: during one parse_table run every fired flag starts false and only
\* changes false -> true; at every point of the scan rule R's flag is true
\* iff some already-processed pair lies in a row not skipped as hidden, has
\* a direction cell without strike-through and a function name whose first
\* fullmatching ignore rule is R, whatever the direction cell's text.
C11_FiredFlagHistory == []FlagsFollowScan /\ [][FlagsOnlyRise]_vars

\* the scan is over; a pair with an invalid or empty direction text and a
\* name two rules fullmatch set the first rule's flag only, and a pair with
\* a struck direction cell left the flag of its rule unset
C11_Witness ==
    /\ pc = "scan"
    /\ ridx > Len(ws)
    /\ \E pos \in Positions :
          /\ Tested(pos)
          /\ DirCellAt(pos).value \notin ValidDirTexts
          /\ Cardinality(IgnoreMatches(FuncNameAt(pos))) > 1
          /\ \A i \in IgnoreMatches(FuncNameAt(pos)) :
                ignore_dict[i].active <=> i = Min(IgnoreMatches(FuncNameAt(pos)))
    /\ \E pos \in Positions :
          /\ DirCellAt(pos).strike
          /\ IgnoreMatches(FuncNameAt(pos)) # {}
          /\ ~ignore_dict[Min(IgnoreMatches(FuncNameAt(pos)))].active

====
